---- MODULE Spec2Model ----
(***************************************************************************)
(* Model of the answer-sheet marking service: the orchestrator pipeline    *)
(* (core/orchestrator.py), the marking service with its in-memory indexes  *)
(* (api/services/marking_service.py) and the hash-keyed persistent store   *)
(* (storage/persistent_storage.py).                                        *)
(*                                                                         *)
(* Each request is a coroutine.  A coroutine is suspended only at an       *)
(* await on an external collaborator (document processor, agent); the code *)
(* between two awaits runs without interleaving.  The synchronous tail of  *)
(* a request (saving the blob and the metadata) is split into the steps at *)
(* which the process may die, and no other coroutine runs during it.       *)
(***************************************************************************)
EXTENDS Integers, Sequences, FiniteSets, TLC

\* ---------------------------------------------------------------- bounds
NumProcs == 2          \* concurrent requests in flight
NumQuestions == 2      \* questions found in a marking guide document
MaxGuideFiles == 1     \* distinct marking guide documents
MaxAnswerFiles == 1    \* distinct answer sheet documents
MaxStudents == 1       \* distinct student ids
MaxGuideIds == 2       \* guide ids uuid4 hands out in a behaviour
MaxReportIds == 2      \* report ids uuid4 hands out in a behaviour
MaxRestarts == 1       \* process deaths / restarts in a behaviour
MaxFaults == 1         \* failures of collaborators and of file I/O in a behaviour

Procs == 1..NumProcs
Questions == 1..NumQuestions
GuideFiles == 1..MaxGuideFiles
AnswerFiles == 1..MaxAnswerFiles
Students == 1..MaxStudents
GuideIds == 1..MaxGuideIds
ReportIds == 1..MaxReportIds

\* ---------------------------------------------------------------- state
VARIABLES
  marking_guides,   \* MarkingService.marking_guides : guide id -> MarkingGuide
  reports,          \* MarkingService.reports : report id -> EvaluationReport
  metadata,         \* PersistentStorage.metadata (the dict in memory)
  metadata_file,    \* metadata.json on disk
  guide_blobs,      \* marking_guides/<id>.pkl on disk
  report_blobs,     \* reports/<id>.pkl on disk
  run,              \* the coroutine of each request slot
  next_guide,       \* guide ids handed out so far
  next_report,      \* report ids handed out so far
  restarts,         \* number of times the process was started again
  faults,           \* failures of collaborators and of file I/O so far
  answer_sheets,    \* content of each answer document: the questions it answers
  issued,           \* history: the ids returned for newly processed documents
  pipeline,         \* the data of one run of OrchestratorAgent.mark_answer_sheet
  call              \* one call of a function of the agents: input and result

\* The state of the service and its store.
service == <<marking_guides, reports, metadata, metadata_file, guide_blobs,
             report_blobs, run, next_guide, next_report, restarts, faults,
             answer_sheets, issued>>

vars == <<marking_guides, reports, metadata, metadata_file, guide_blobs,
          report_blobs, run, next_guide, next_report, restarts, faults,
          answer_sheets, issued, pipeline, call>>

\* ---------------------------------------------------------------- helpers
EmptyMap == [x \in {} |-> x]

Put(f, k, v) == [x \in DOMAIN f \cup {k} |-> IF x = k THEN v ELSE f[x]]

Get(f, k, default) == IF k \in DOMAIN f THEN f[k] ELSE default

EmptyMetadata ==
  [file_hashes |-> EmptyMap, guides |-> EmptyMap,
   reports |-> EmptyMap, answer_sheet_hashes |-> EmptyMap]

\* SHA-256 of the file's bytes: distinct documents have distinct digests.
compute_file_hash(kind, f) == <<"sha256", kind, f>>

\* f"{marking_guide_id}:{student_id}:{answer_sheet_hash}"
cache_key(g, s, h) == <<g, s, h>>

\* json.load of metadata.json; an unreadable file yields the empty index.
LoadMetadata(file) == IF file.valid THEN file.data ELSE EmptyMetadata

NoError == [stage |-> "", cause |-> ""]
NoResult == [id |-> 0, cached |-> FALSE]

IdleRun ==
  [pc |-> "idle", kind |-> "none", file |-> 0, guide_id |-> 0, student |-> 0,
   answers |-> {}, qi |-> 0, evaluations |-> <<>>, log |-> <<>>, id |-> 0,
   after |-> "", bad |-> 0, consulted |-> FALSE, missed |-> 0,
   result |-> NoResult, error |-> NoError]

AwaitPcs == {"process_marking_guide", "analyze", "process_answer_sheet",
             "evaluate", "score", "feedback", "qa"}
SyncPcs == {"guide:dump", "report:dump", "meta:open", "meta:dump"}

\* No coroutine is in the middle of a synchronous section.
LoopFree == \A q \in Procs : run[q].pc \notin SyncPcs

Fail(r, stage, cause) ==
  [r EXCEPT !.pc = "failed", !.error = [stage |-> stage, cause |-> cause]]

\* A collaborator or a file operation may fail while the behaviour's
\* failures are not used up.
Outcomes == IF faults < MaxFaults THEN BOOLEAN ELSE {TRUE}
Cost(ok) == IF ok THEN 0 ELSE 1

\* ---------------------------------------------------------------- init
\* No run of the orchestrator is followed at the level of its data, and no
\* single function call is followed.
NoPipeline == [stage |-> "none"]
NoCall == [fn |-> "none"]

\* The service after construction on an empty storage directory.
ServiceInit ==
  /\ marking_guides = EmptyMap
  /\ reports = EmptyMap
  /\ metadata = EmptyMetadata
  /\ metadata_file = [valid |-> TRUE, data |-> EmptyMetadata]
  /\ guide_blobs = EmptyMap
  /\ report_blobs = EmptyMap
  /\ run = [p \in Procs |-> IdleRun]
  /\ next_guide = 0
  /\ next_report = 0
  /\ restarts = 0
  /\ faults = 0
  /\ answer_sheets \in [AnswerFiles -> SUBSET Questions]
  /\ issued = {}

Init ==
  /\ ServiceInit
  /\ pipeline = NoPipeline
  /\ call = NoCall

\* ================================================================ agents
\* Reply of an agent's process(): an AgentMessage of type "response" or
\* "error", or an exception raised out of process().
Response == [type |-> "response", text |-> ""]
ErrorReply(text) == [type |-> "error", text |-> text]
Raised == [type |-> "raise", text |-> "exception"]

NoEvaluations == "No evaluations found in message content"

\* AnswerEvaluatorAgent.process: one backend call; any failure inside is
\* turned into an error message.
EvaluatorReplies == {Response, ErrorReply("backend"), Raised}

\* ScoringAgent.process: an empty (or missing) evaluation list is answered
\* with an error message before any score is computed.
ScoringReplies(evaluations) ==
  IF evaluations = <<>> THEN {ErrorReply(NoEvaluations)}
  ELSE {Response, ErrorReply("backend"), Raised}

\* FeedbackGeneratorAgent.process: same guard, then backend calls.
FeedbackReplies(evaluations) ==
  IF evaluations = <<>> THEN {ErrorReply(NoEvaluations)}
  ELSE {Response, ErrorReply("backend"), Raised}

\* QAAgent.process: same guard, then the rule-based checks.
QAReplies(evaluations) ==
  IF evaluations = <<>> THEN {ErrorReply(NoEvaluations)}
  ELSE {Response, ErrorReply("backend"), Raised}

\* The replies open to an agent now: its failures for reasons of its own
\* (backend, exception) count against the behaviour's failures.
Possible(replies) ==
  {reply \in replies : reply.text \in {"", NoEvaluations} \/ faults < MaxFaults}
ReplyCost(reply) == IF reply.text \in {"", NoEvaluations} THEN 0 ELSE 1

\* ================================================================ orchestrator
\* AnswerSheet.get_answer(question_id) is truthy: the sheet holds an answer.
HasAnswer(answers, q) == q \in answers

\* A loop that does not test whether the sheet holds an answer.
NextAnswered_EveryQuestion(questions, answers, i) ==
  IF i < Len(questions) THEN i + 1 ELSE 0

\* The for loop of mark_answer_sheet: the next question after position i
\* for which the sheet holds an answer; 0 when the loop is over.
NextAnswered(questions, answers, i) ==
  LET later == {j \in (i + 1)..Len(questions) : HasAnswer(answers, questions[j])}
  IN IF later = {} THEN 0 ELSE CHOOSE j \in later : \A k \in later : j <= k

\* An order in which feedback is generated before the scores exist.
NextStage_FeedbackFirst(stage) ==
  CASE stage = "evaluate" -> "feedback"
    [] stage = "feedback" -> "score"
    [] stage = "score" -> "qa"
    [] stage = "qa" -> "report"

\* The order of the steps of mark_answer_sheet after a step is complete.
NextStage(stage) ==
  CASE stage = "evaluate" -> "score"
    [] stage = "score" -> "feedback"
    [] stage = "feedback" -> "qa"
    [] stage = "qa" -> "report"

\* The name the orchestrator puts into the exception of a failed stage.
StageName(stage) ==
  CASE stage = "evaluate" -> "Answer evaluation"
    [] stage = "score" -> "Scoring"
    [] stage = "feedback" -> "Feedback generation"
    [] stage = "qa" -> "QA review"

\* A wrapper that does not look at the message type of the reply.
StageFailed_IgnoreErrorMessage(reply) == reply.type = "raise"

\* response.message_type == "error" raises; an exception of process()
\* propagates: either way the step of the orchestrator does not return.
StageFailed(reply) == reply.type # "response"

\* The run after a failed agent call: the except clause of
\* mark_answer_sheet logs and re-raises.
Abort(r, stage, reply) ==
  IF reply.type = "error" THEN Fail(r, StageName(stage), reply.text)
  ELSE Fail(r, "", reply.text)

\* History: the position in the log of the first call of the run that was
\* answered with an error message or an exception (0: none so far).
Received(r, reply) ==
  IF reply.type # "response" /\ r.bad = 0 THEN [r EXCEPT !.bad = Len(r.log)] ELSE r

\* Calling the agent of a stage: the call is entered in the log and the
\* coroutine is suspended until the agent replies.
Call(r, stage, arg) == [r EXCEPT !.pc = stage, !.log = Append(@, <<stage, arg>>)]

\* Continue the evaluation loop from position i: evaluate the next
\* answered question, or leave the loop and call the scoring agent.
ContinueLoop(r, questions, i) ==
  LET j == NextAnswered(questions, r.answers, i)
  IN IF j # 0 THEN [Call(r, "evaluate", questions[j]) EXCEPT !.qi = j]
     ELSE [Call(r, NextStage("evaluate"), 0) EXCEPT !.qi = 0]

\* ================================================================ store
\* PersistentStorage.check_cache: the guide id recorded for the file's hash.
check_cache(f) == Get(metadata.file_hashes, compute_file_hash("guide", f), 0)

\* PersistentStorage.check_answer_sheet_cache: the report id recorded for
\* the (guide, student, answer file hash) key.
\* A lookup that takes the report recorded for the guide and the file
\* whatever the student.
check_answer_sheet_cache_AnyStudent(g, s, a) ==
  LET index == metadata.answer_sheet_hashes
      found == {k \in DOMAIN index :
                  k[1] = g /\ k[3] = compute_file_hash("answer", a)}
  IN IF found = {} THEN 0 ELSE index[CHOOSE k \in found : TRUE]

check_answer_sheet_cache(g, s, a) ==
  Get(metadata.answer_sheet_hashes, cache_key(g, s, compute_file_hash("answer", a)), 0)

\* A check that never finds the recorded id.
CacheHit_Never(cached_id, index) == FALSE

\* A check that takes every recorded id for a hit.
CacheHit_Recorded(cached_id, index) == cached_id # 0

\* "cached_id and cached_id in self.<index>": the id is recorded and the
\* object is resident.
CacheHit(cached_id, index) == cached_id # 0 /\ cached_id \in DOMAIN index

\* History of a cache check: the recorded id when the check found one whose
\* object is not resident (0 otherwise).
Missed(cached_id, index) ==
  IF cached_id # 0 /\ cached_id \notin DOMAIN index THEN cached_id ELSE 0

\* A request that has consulted its cache (history).
Consulted(r, cached_id, index) ==
  [r EXCEPT !.consulted = TRUE, !.missed = Missed(cached_id, index)]

\* A blob file: opened for writing (created, incomplete) and then dumped.
PartialBlob(obj) == [complete |-> FALSE, obj |-> obj]

\* A dump that has not reached the file when the metadata is updated.
CompleteBlob_NotYetWritten(obj) == PartialBlob(obj)

CompleteBlob(obj) == [complete |-> TRUE, obj |-> obj]

\* load_marking_guide / load_report: None when the file is missing or
\* cannot be unpickled.
Loadable(blobs, id) == id \in DOMAIN blobs /\ blobs[id].complete

\* load_all_to_memory for one index: every listed id whose blob loads.
LoadAll(listed, blobs) ==
  [id \in {i \in DOMAIN listed : Loadable(blobs, i)} |-> blobs[id].obj]

\* The cache key of a request, in one shape for both caches: an upload
\* has no guide id and no student.
RunKey(r) ==
  IF r.kind = "upload" THEN cache_key(0, 0, compute_file_hash("guide", r.file))
  ELSE cache_key(r.guide_id, r.student, compute_file_hash("answer", r.file))

\* The request returns (id, object, cached) to its caller.
Return(r, id, cached) ==
  [r EXCEPT !.pc = "done", !.after = "", !.result = [id |-> id, cached |-> cached]]

\* The history entry of a document processed anew.
Issued(r, obj) == [key |-> RunKey(r), id |-> r.id, obj |-> obj, epoch |-> restarts]

\* Requests of a kind that have not been given their id yet (uuid4 never
\* runs out; the model stops admitting new work when its ids are used up).
Pending(kind) == Cardinality({q \in Procs : run[q].kind = kind /\ run[q].pc \in AwaitPcs})

\* ================================================================ upload
\* upload_marking_guide up to its first await: the cache check.
UploadStart(p, f) ==
  /\ run[p].pc = "idle"
  /\ LoopFree
  /\ LET cached_guide_id == check_cache(f)
         r == Consulted([IdleRun EXCEPT !.kind = "upload", !.file = f],
                        cached_guide_id, marking_guides)
     IN IF CacheHit(cached_guide_id, marking_guides)
        THEN run' = [run EXCEPT ![p] = Return(r, cached_guide_id, TRUE)]
        ELSE /\ next_guide + Pending("upload") < MaxGuideIds
             /\ run' = [run EXCEPT ![p] = Call(r, "process_marking_guide", f)]
  /\ UNCHANGED <<marking_guides, reports, metadata, metadata_file, guide_blobs,
                 report_blobs, next_guide, next_report, restarts, faults,
                 answer_sheets, issued>>
  /\ UNCHANGED <<pipeline, call>>

\* doc_processor.process_marking_guide returns or raises; on return the
\* loop over the questions calls the question analyzer for the first one.
ProcessMarkingGuideReturn(p) ==
  /\ run[p].pc = "process_marking_guide"
  /\ LoopFree
  /\ \E ok \in Outcomes :
       /\ run' = [run EXCEPT ![p] =
                    IF ok THEN [Call(@, "analyze", 1) EXCEPT !.qi = 1]
                    ELSE Fail(@, "upload", "document processing")]
       /\ faults' = faults + Cost(ok)
  /\ UNCHANGED <<marking_guides, reports, metadata, metadata_file, guide_blobs,
                 report_blobs, next_guide, next_report, restarts,
                 answer_sheets, issued>>
  /\ UNCHANGED <<pipeline, call>>

\* The guide built from the analyzed questions of file f.
MarkingGuide(f) ==
  [title |-> f, source_file |-> f, questions |-> [i \in Questions |-> i]]

\* _analyze_single_question returns or raises.  After the last question
\* the guide gets a fresh id, is stored in memory, and save_marking_guide
\* opens the blob file.
AnalyzeReturn(p) ==
  /\ run[p].pc = "analyze"
  /\ LoopFree
  /\ \E ok \in Outcomes :
       /\ faults' = faults + Cost(ok)
       /\ IF ~ok
          THEN /\ run' = [run EXCEPT ![p] = Fail(@, "upload", "question analysis")]
               /\ UNCHANGED <<marking_guides, guide_blobs, next_guide>>
          ELSE IF run[p].qi < NumQuestions
          THEN /\ run' = [run EXCEPT ![p] =
                            [Call(@, "analyze", @.qi + 1) EXCEPT !.qi = @ + 1]]
               /\ UNCHANGED <<marking_guides, guide_blobs, next_guide>>
          ELSE LET guide_id == next_guide + 1
                   guide == MarkingGuide(run[p].file)
               IN /\ next_guide' = guide_id
                  /\ marking_guides' = Put(marking_guides, guide_id, guide)
                  /\ guide_blobs' = Put(guide_blobs, guide_id, PartialBlob(guide))
                  /\ run' = [run EXCEPT ![p] =
                               [@ EXCEPT !.pc = "guide:dump", !.id = guide_id, !.qi = 0]]
  /\ UNCHANGED <<reports, metadata, metadata_file, report_blobs, next_report,
                 restarts, answer_sheets, issued>>
  /\ UNCHANGED <<pipeline, call>>

\* save_marking_guide: what enters the metadata once the blob is written.
GuideMetadata(m, guide_id, guide, file_hash) ==
  [m EXCEPT !.file_hashes = Put(@, file_hash, guide_id),
            !.guides = Put(@, guide_id, [title |-> guide.title, file_hash |-> file_hash])]

\* pickle.dump of the guide completes, and the metadata in memory is
\* updated; or it raises, and upload_marking_guide fails.
SaveGuideDump(p) ==
  /\ run[p].pc = "guide:dump"
  /\ LET guide_id == run[p].id
         guide == marking_guides[guide_id]
     IN \E ok \in Outcomes :
       /\ faults' = faults + Cost(ok)
       /\ IF ok
          THEN /\ guide_blobs' = Put(guide_blobs, guide_id, CompleteBlob(guide))
               /\ metadata' = GuideMetadata(metadata, guide_id, guide,
                                            compute_file_hash("guide", run[p].file))
               /\ run' = [run EXCEPT ![p] = [@ EXCEPT !.pc = "meta:open", !.after = "guide"]]
          ELSE /\ run' = [run EXCEPT ![p] = Fail(@, "upload", "save_marking_guide")]
               /\ UNCHANGED <<guide_blobs, metadata>>
  /\ UNCHANGED <<marking_guides, reports, metadata_file, report_blobs, next_guide,
                 next_report, restarts, answer_sheets, issued>>
  /\ UNCHANGED <<pipeline, call>>

\* ================================================================ metadata.json
\* _save_metadata, first half: open(metadata_file, "w") truncates the
\* file; a failure to open is logged and swallowed.
\* _save_metadata, second half: json.dump writes the dict in memory; a
\* failure is logged and swallowed and leaves the file unreadable.
Truncated == [valid |-> FALSE, data |-> EmptyMetadata]
Written(m) == [valid |-> TRUE, data |-> m]

\* A registration that records nothing.
RegisterMetadata_Nothing(m, g, s, a, report_id) == m

\* register_answer_sheet: the entry added to the metadata in memory.
RegisterMetadata(m, g, s, a, report_id) ==
  [m EXCEPT !.answer_sheet_hashes =
     Put(@, cache_key(g, s, compute_file_hash("answer", a)), report_id)]

\* What the request does when _save_metadata has returned.
\*   after save_marking_guide: upload_marking_guide returns (id, guide, False)
\*   after save_report: register_answer_sheet updates the metadata in memory
\*   after register_answer_sheet: mark_answer_sheet returns (id, report, False)
AfterSaveMetadata(p) ==
  LET r == run[p]
  IN IF r.after = "report"
     THEN /\ metadata' = RegisterMetadata(metadata, r.guide_id, r.student, r.file, r.id)
          /\ run' = [run EXCEPT ![p] = [r EXCEPT !.pc = "meta:open", !.after = "register"]]
          /\ UNCHANGED issued
     ELSE /\ run' = [run EXCEPT ![p] = Return(r, r.id, FALSE)]
          /\ issued' = issued \cup
               {Issued(r, IF r.kind = "upload" THEN marking_guides[r.id] ELSE reports[r.id])}
          /\ UNCHANGED metadata

SaveMetadataOpen(p) ==
  /\ run[p].pc = "meta:open"
  /\ \E ok \in Outcomes :
       /\ faults' = faults + Cost(ok)
       /\ IF ok
          THEN /\ metadata_file' = Truncated
               /\ run' = [run EXCEPT ![p] = [@ EXCEPT !.pc = "meta:dump"]]
               /\ UNCHANGED <<metadata, issued>>
          ELSE /\ AfterSaveMetadata(p)
               /\ UNCHANGED metadata_file
  /\ UNCHANGED <<marking_guides, reports, guide_blobs, report_blobs, next_guide,
                 next_report, restarts, answer_sheets>>
  /\ UNCHANGED <<pipeline, call>>

SaveMetadataDump(p) ==
  /\ run[p].pc = "meta:dump"
  /\ \E ok \in Outcomes :
       /\ faults' = faults + Cost(ok)
       /\ metadata_file' = IF ok THEN Written(metadata) ELSE metadata_file
  /\ AfterSaveMetadata(p)
  /\ UNCHANGED <<marking_guides, reports, guide_blobs, report_blobs, next_guide,
                 next_report, restarts, answer_sheets>>
  /\ UNCHANGED <<pipeline, call>>

\* ================================================================ marking
\* A lookup that takes every guide id for a known one.
GuideResident_Always(g) == TRUE

\* self.marking_guides.get(marking_guide_id) is not None.
GuideResident(g) == g \in DOMAIN marking_guides

\* MarkingService.mark_answer_sheet up to its first await: the guide
\* lookup and the answer-sheet cache check.
MarkStart(p, g, s, a) ==
  /\ run[p].pc = "idle"
  /\ LoopFree
  /\ LET request == [IdleRun EXCEPT !.kind = "mark", !.guide_id = g, !.student = s,
                                    !.file = a]
         cached_report_id == check_answer_sheet_cache(g, s, a)
         r == Consulted(request, cached_report_id, reports)
     IN IF ~GuideResident(g)
        THEN run' = [run EXCEPT ![p] = Fail(request, "lookup", "ResourceNotFoundError")]
        ELSE IF CacheHit(cached_report_id, reports)
        THEN run' = [run EXCEPT ![p] = Return(r, cached_report_id, TRUE)]
        ELSE /\ next_report + Pending("mark") < MaxReportIds
             /\ run' = [run EXCEPT ![p] = Call(r, "process_answer_sheet", a)]
  /\ UNCHANGED <<marking_guides, reports, metadata, metadata_file, guide_blobs,
                 report_blobs, next_guide, next_report, restarts, faults,
                 answer_sheets, issued>>
  /\ UNCHANGED <<pipeline, call>>

\* doc_processor.process_answer_sheet returns the answers found in the
\* document or raises.  On return the orchestrator starts:
\* OrchestratorAgent.mark_answer_sheet enters its evaluation loop.
ProcessAnswerSheetReturn(p) ==
  /\ run[p].pc = "process_answer_sheet"
  /\ LoopFree
  /\ \E ok \in Outcomes :
       /\ faults' = faults + Cost(ok)
       /\ run' = [run EXCEPT ![p] =
            IF ok
            THEN ContinueLoop([run[p] EXCEPT !.answers = answer_sheets[run[p].file]],
                              marking_guides[run[p].guide_id].questions, 0)
            ELSE Fail(@, "mark", "document processing")]
  /\ UNCHANGED <<marking_guides, reports, metadata, metadata_file, guide_blobs,
                 report_blobs, next_guide, next_report, restarts,
                 answer_sheets, issued>>
  /\ UNCHANGED <<pipeline, call>>

\* An evaluation against a question analysed anew for this run: analysis
\* gives the question another identifier than the one stored in the guide.
Evaluation_Reanalysed(q) == [question_id |-> q + NumQuestions]

\* The evaluation the answer evaluator returns for a question.
Evaluation(q) == [question_id |-> q]

\* _evaluate_answer: the answer evaluator replies.
EvaluateReturn(p) ==
  /\ run[p].pc = "evaluate"
  /\ LoopFree
  /\ \E reply \in Possible(EvaluatorReplies) :
       LET r == Received(run[p], reply)
           questions == marking_guides[r.guide_id].questions
       IN /\ faults' = faults + ReplyCost(reply)
          /\ run' = [run EXCEPT ![p] =
               IF StageFailed(reply) THEN Abort(r, "evaluate", reply)
               ELSE ContinueLoop(
                      [r EXCEPT !.evaluations = Append(@, Evaluation(questions[r.qi]))],
                      questions, r.qi)]
  /\ UNCHANGED <<marking_guides, reports, metadata, metadata_file, guide_blobs,
                 report_blobs, next_guide, next_report, restarts,
                 answer_sheets, issued>>
  /\ UNCHANGED <<pipeline, call>>

\* _calculate_scores: the scoring agent replies.
ScoreReturn(p) ==
  /\ run[p].pc = "score"
  /\ LoopFree
  /\ \E reply \in Possible(ScoringReplies(run[p].evaluations)) :
       /\ faults' = faults + ReplyCost(reply)
       /\ run' = [run EXCEPT ![p] =
                    IF StageFailed(reply) THEN Abort(Received(@, reply), "score", reply)
                    ELSE Call(Received(@, reply), NextStage("score"), 0)]
  /\ UNCHANGED <<marking_guides, reports, metadata, metadata_file, guide_blobs,
                 report_blobs, next_guide, next_report, restarts,
                 answer_sheets, issued>>
  /\ UNCHANGED <<pipeline, call>>

\* _generate_feedback: the feedback generator replies.
FeedbackReturn(p) ==
  /\ run[p].pc = "feedback"
  /\ LoopFree
  /\ \E reply \in Possible(FeedbackReplies(run[p].evaluations)) :
       /\ faults' = faults + ReplyCost(reply)
       /\ run' = [run EXCEPT ![p] =
                    IF StageFailed(reply) THEN Abort(Received(@, reply), "feedback", reply)
                    ELSE Call(Received(@, reply), NextStage("feedback"), 0)]
  /\ UNCHANGED <<marking_guides, reports, metadata, metadata_file, guide_blobs,
                 report_blobs, next_guide, next_report, restarts,
                 answer_sheets, issued>>
  /\ UNCHANGED <<pipeline, call>>

\* The report _generate_report assembles.
EvaluationReport(r, guide) ==
  [student_id |-> r.student, assessment_title |-> guide.title,
   question_evaluations |-> r.evaluations]

\* _qa_review: the QA agent replies.  On a response the report is
\* assembled (the model constructors validate and may raise), the report
\* gets a fresh id, is stored in memory, and save_report opens the blob.
QAReturn(p) ==
  /\ run[p].pc = "qa"
  /\ LoopFree
  /\ \E reply \in Possible(QAReplies(run[p].evaluations)) :
       LET r == Received(run[p], reply)
           called == [r EXCEPT !.log = Append(@, <<NextStage("qa"), 0>>)]
       IN IF StageFailed(reply)
          THEN /\ run' = [run EXCEPT ![p] = Abort(r, "qa", reply)]
               /\ faults' = faults + ReplyCost(reply)
               /\ UNCHANGED <<reports, report_blobs, next_report>>
          ELSE \E assembled \in Outcomes :
            /\ faults' = faults + Cost(assembled)
            /\ IF ~assembled
               THEN /\ run' = [run EXCEPT ![p] = Fail(called, "", "validation")]
                    /\ UNCHANGED <<reports, report_blobs, next_report>>
               ELSE LET report_id == next_report + 1
                        report == EvaluationReport(r, marking_guides[r.guide_id])
                    IN /\ next_report' = report_id
                       /\ reports' = Put(reports, report_id, report)
                       /\ report_blobs' = Put(report_blobs, report_id, PartialBlob(report))
                       /\ run' = [run EXCEPT ![p] =
                                    [called EXCEPT !.pc = "report:dump", !.id = report_id]]
  /\ UNCHANGED <<marking_guides, metadata, metadata_file, guide_blobs, next_guide,
                 restarts, answer_sheets, issued>>
  /\ UNCHANGED <<pipeline, call>>

\* save_report: what enters the metadata once the blob is written.
ReportMetadata(m, report_id, report, marking_guide_id) ==
  [m EXCEPT !.reports = Put(@, report_id,
     [student_id |-> report.student_id, marking_guide_id |-> marking_guide_id])]

\* pickle.dump of the report completes, and the metadata in memory is
\* updated; or it raises, and mark_answer_sheet fails.
SaveReportDump(p) ==
  /\ run[p].pc = "report:dump"
  /\ LET report_id == run[p].id
         report == reports[report_id]
     IN \E ok \in Outcomes :
       /\ faults' = faults + Cost(ok)
       /\ IF ok
          THEN /\ report_blobs' = Put(report_blobs, report_id, CompleteBlob(report))
               /\ metadata' = ReportMetadata(metadata, report_id, report, run[p].guide_id)
               /\ run' = [run EXCEPT ![p] = [@ EXCEPT !.pc = "meta:open", !.after = "report"]]
          ELSE /\ run' = [run EXCEPT ![p] = Fail(@, "", "save_report")]
               /\ UNCHANGED <<report_blobs, metadata>>
  /\ UNCHANGED <<marking_guides, reports, metadata_file, guide_blobs, next_guide,
                 next_report, restarts, answer_sheets, issued>>
  /\ UNCHANGED <<pipeline, call>>

\* ================================================================ process
\* The caller has its result or its error; the slot is free again.
Finish(p) ==
  /\ run[p].pc \in {"done", "failed"}
  /\ run' = [run EXCEPT ![p] = IdleRun]
  /\ UNCHANGED <<marking_guides, reports, metadata, metadata_file, guide_blobs,
                 report_blobs, next_guide, next_report, restarts, faults,
                 answer_sheets, issued>>
  /\ UNCHANGED <<pipeline, call>>

\* The process dies (at any point, also inside a save) and is started
\* again: PersistentStorage.__init__ loads metadata.json, and
\* MarkingService.initialize loads every listed guide and report.
Restart ==
  /\ restarts < MaxRestarts
  /\ restarts' = restarts + 1
  /\ run' = [p \in Procs |-> IdleRun]
  /\ LET m == LoadMetadata(metadata_file)
     IN /\ metadata' = m
        /\ marking_guides' = LoadAll(m.guides, guide_blobs)
        /\ reports' = LoadAll(m.reports, report_blobs)
  /\ UNCHANGED <<metadata_file, guide_blobs, report_blobs, next_guide, next_report,
                 faults, answer_sheets, issued>>
  /\ UNCHANGED <<pipeline, call>>

Next ==
  \/ \E p \in Procs, f \in GuideFiles : UploadStart(p, f)
  \/ \E p \in Procs : ProcessMarkingGuideReturn(p)
  \/ \E p \in Procs : AnalyzeReturn(p)
  \/ \E p \in Procs : SaveGuideDump(p)
  \/ \E p \in Procs : SaveMetadataOpen(p)
  \/ \E p \in Procs : SaveMetadataDump(p)
  \/ \E p \in Procs, g \in GuideIds, s \in Students, a \in AnswerFiles : MarkStart(p, g, s, a)
  \/ \E p \in Procs : ProcessAnswerSheetReturn(p)
  \/ \E p \in Procs : EvaluateReturn(p)
  \/ \E p \in Procs : ScoreReturn(p)
  \/ \E p \in Procs : FeedbackReturn(p)
  \/ \E p \in Procs : QAReturn(p)
  \/ \E p \in Procs : SaveReportDump(p)
  \/ \E p \in Procs : Finish(p)
  \/ Restart

Spec == Init /\ [][Next]_vars

\* ================================================================ damaged store
\* Blob files as the environment may leave them: the files of the ids in
\* lost are deleted (gone) or unreadable.  load_marking_guide / load_report
\* return None for both.
Damaged(blobs, lost, gone) ==
  IF gone THEN [x \in DOMAIN blobs \ lost |-> blobs[x]]
  ELSE [x \in DOMAIN blobs |-> IF x \in lost THEN PartialBlob(blobs[x].obj) ELSE blobs[x]]

\* The ids whose blob files are completely written.
Written_ids(blobs) == {id \in DOMAIN blobs : Loadable(blobs, id)}

\* The process dies and is started again on a disk that has lost or
\* damaged some written blob files: load_all_to_memory skips them, the
\* metadata still lists them.
RestartDamaged ==
  /\ restarts < MaxRestarts
  /\ restarts' = restarts + 1
  /\ run' = [p \in Procs |-> IdleRun]
  /\ \E lost_guides \in SUBSET Written_ids(guide_blobs),
        lost_reports \in SUBSET Written_ids(report_blobs), gone \in BOOLEAN :
       /\ lost_guides \cup lost_reports # {}
       /\ guide_blobs' = Damaged(guide_blobs, lost_guides, gone)
       /\ report_blobs' = Damaged(report_blobs, lost_reports, gone)
  /\ LET m == LoadMetadata(metadata_file)
     IN /\ metadata' = m
        /\ marking_guides' = LoadAll(m.guides, guide_blobs')
        /\ reports' = LoadAll(m.reports, report_blobs')
  /\ UNCHANGED <<metadata_file, next_guide, next_report, faults, answer_sheets,
                 issued>>
  /\ UNCHANGED <<pipeline, call>>

\* The service on a disk that may lose or damage blob files.
NextDamaged ==
  \/ Next
  \/ RestartDamaged

SpecDamaged == Init /\ [][NextDamaged]_vars

\* ================================================================ claims
Count(log, stage) == Cardinality({i \in 1..Len(log) : log[i][1] = stage})

Rank(stage) ==
  CASE stage = "process_answer_sheet" -> 0
    [] stage = "evaluate" -> 1
    [] stage = "score" -> 2
    [] stage = "feedback" -> 3
    [] stage = "qa" -> 4
    [] stage = "report" -> 5

MarkRuns == {p \in Procs : run[p].kind = "mark"}

\* A marking run that went through the pipeline and returned a report.
Marked(p) == run[p].kind = "mark" /\ run[p].pc = "done" /\ ~run[p].result.cached

\* C1: the stages of a marking run occur in the order evaluation, scoring,
\* feedback, QA audit, report assembly: the calls of the run are made in
\* non-decreasing stage order, scoring, feedback, QA and assembly at most
\* once each (no stage is entered again after a later one has started), a
\* later stage is entered only when the stage before it was entered and
\* only the call made last is still in flight (every earlier call has
\* completed), and a run that returns a report went through every stage.
C1_StagesInOrder ==
  \A p \in MarkRuns :
    LET log == run[p].log
    IN /\ \A i, j \in 1..Len(log) : i < j => Rank(log[i][1]) <= Rank(log[j][1])
       /\ \A st \in {"score", "feedback", "qa", "report"} : Count(log, st) <= 1
       /\ \A st \in {"score", "feedback", "qa"} :
            Count(log, NextStage(st)) = 1 => Count(log, st) = 1
       /\ run[p].pc \in AwaitPcs => run[p].pc = log[Len(log)][1]
       /\ Marked(p) =>
            \A st \in {"score", "feedback", "qa", "report"} : Count(log, st) = 1

C1_Witness ==
  \E p \in Procs : Marked(p) /\ Len(run[p].evaluations) = NumQuestions

\* C2: in a marking run, once scoring has been called the answer evaluator
\* has been called exactly once for each question of the guide the sheet
\* answers and not at all for the others, every one of these calls before
\* the call of the scoring agent and each with its evaluation gathered;
\* in a run that returns a report the scoring agent, the feedback
\* generator and the QA agent have been called exactly once each.
C2_OneCallPerAnswer ==
  \A p \in MarkRuns :
    LET log == run[p].log
        questions == marking_guides[run[p].guide_id].questions
        calls(q) == {i \in 1..Len(log) : log[i] = <<"evaluate", q>>}
    IN /\ Count(log, "score") > 0 =>
            /\ \A k \in 1..Len(questions) :
                 Cardinality(calls(questions[k])) =
                   IF questions[k] \in answer_sheets[run[p].file] THEN 1 ELSE 0
            /\ \A i, j \in 1..Len(log) :
                 log[i][1] = "evaluate" /\ log[j][1] = "score" => i < j
            /\ Len(run[p].evaluations) = Count(log, "evaluate")
       /\ Marked(p) =>
            \A st \in {"score", "feedback", "qa"} : Count(log, st) = 1

C2_Witness ==
  \E p \in Procs :
    /\ Marked(p)
    /\ answer_sheets[run[p].file] # {}
    /\ answer_sheets[run[p].file] # Questions

\* C3: questions without an answer never make a marking run fail: a run
\* fails only when the guide is unknown or a collaborator (document
\* processor, agent backend, model validation, file system) failed.
C3_MissingAnswersNeverFail ==
  \A p \in MarkRuns :
    run[p].pc = "failed" =>
      run[p].error.cause \in {"ResourceNotFoundError", "document processing",
                              "backend", "exception", "validation", "save_report"}

\* C4: when an agent call of a marking run is answered with an error
\* message or raises, the run is over: it has failed, the failed call is
\* the last call the run makes (no retry, no later stage), no report id
\* is given out and no report is returned.
C4_FailedCallAborts ==
  \A p \in MarkRuns :
    run[p].bad # 0 =>
      /\ run[p].pc = "failed"
      /\ Len(run[p].log) = run[p].bad
      /\ run[p].log[run[p].bad][1] \in {"evaluate", "score", "feedback", "qa"}
      /\ run[p].id = 0
      /\ run[p].result = NoResult

C4_Witness ==
  \E p \in MarkRuns :
    /\ run[p].bad # 0
    /\ run[p].log[run[p].bad][1] = "feedback"
    /\ run[p].error.cause = "backend"

\* The index a restart would load from metadata.json.
DurableIndex == LoadMetadata(metadata_file)

\* The report ids an index refers to, and the guide ids it refers to.
IndexedReports(m) ==
  DOMAIN m.reports \cup {m.answer_sheet_hashes[k] : k \in DOMAIN m.answer_sheet_hashes}
IndexedGuides(m) ==
  DOMAIN m.guides \cup {m.file_hashes[h] : h \in DOMAIN m.file_hashes}

\* C5: a marking run that fails is all-or-nothing: the report of a failed
\* run is neither in the in-memory report index nor among the report blobs
\* nor in the report metadata or the answer-sheet cache, in memory or on
\* disk.
C5_FailedRunLeavesNothing ==
  \A p \in MarkRuns :
    run[p].pc = "failed" /\ run[p].id # 0 =>
      /\ run[p].id \notin DOMAIN reports
      /\ run[p].id \notin DOMAIN report_blobs
      /\ run[p].id \notin IndexedReports(metadata)
      /\ run[p].id \notin IndexedReports(DurableIndex)

\* C6: a marking request for a (guide, student, answer file) triple for
\* which a run of this process has completed and returned a report id
\* returns at once with cached = true, an id returned by such a run and
\* the report that run returned, without any call to the document
\* processor or to an agent.
C6_SecondMarkIsCached ==
  [][\A p \in Procs :
       ( /\ run[p].pc = "idle"
         /\ run'[p].kind = "mark"
         /\ \E e \in issued : e.key = RunKey(run'[p]) /\ e.epoch = restarts )
       => /\ run'[p].pc = "done"
          /\ run'[p].result.cached
          /\ run'[p].log = <<>>
          /\ \E e \in issued :
               /\ e.key = RunKey(run'[p])
               /\ e.epoch = restarts
               /\ e.id = run'[p].result.id
               /\ reports'[e.id] = e.obj
          /\ UNCHANGED <<marking_guides, reports, metadata, metadata_file,
                         guide_blobs, report_blobs, next_report>>]_vars

C6_Witness ==
  \E p \in MarkRuns :
    /\ run[p].pc = "done"
    /\ run[p].result.cached
    /\ \E e \in issued : e.key = RunKey(run[p]) /\ e.id = run[p].result.id

\* C7: an upload of a file whose hash is recorded for a guide that is
\* resident in memory returns at once that guide id with cached = true,
\* without a call to the document processor or the question analyzer, and
\* gives out no guide id and changes neither the indexes nor the store.
C7_UploadOfKnownFileIsCached ==
  [][\A p \in Procs :
       LET h == compute_file_hash("guide", run'[p].file)
       IN ( /\ run[p].pc = "idle"
            /\ run'[p].kind = "upload"
            /\ h \in DOMAIN metadata.file_hashes
            /\ metadata.file_hashes[h] \in DOMAIN marking_guides )
          => /\ run'[p].pc = "done"
             /\ run'[p].result = [id |-> metadata.file_hashes[h], cached |-> TRUE]
             /\ run'[p].log = <<>>
             /\ UNCHANGED <<marking_guides, reports, metadata, metadata_file,
                            guide_blobs, report_blobs, next_guide>>]_vars

C7_Witness ==
  \E p \in Procs :
    /\ run[p].kind = "upload"
    /\ run[p].pc = "done"
    /\ run[p].result.cached
    /\ run[p].result.id \in DOMAIN marking_guides

\* C8: for any cache key at most one identifier is computed and
\* registered: no two requests of one process lifetime return different
\* newly made ids for the same key.
C8_OneIdPerKey ==
  \A e1, e2 \in issued :
    e1.key = e2.key /\ e1.epoch = e2.epoch => e1.id = e2.id

Kept(f, g) == \A k \in DOMAIN f : k \in DOMAIN g /\ g[k] = f[k]

\* C10: the store is append-only: no step of a request removes or changes
\* an entry of the metadata (file hash -> guide id, guide record, report
\* record, answer-sheet key -> report id) or a written blob, and a restart
\* loads every entry of the index on disk as it is.
C10_AppendOnly ==
  [][/\ Kept([g \in {i \in DOMAIN guide_blobs : guide_blobs[i].complete} |-> guide_blobs[g]],
             guide_blobs')
     /\ Kept([r \in {i \in DOMAIN report_blobs : report_blobs[i].complete} |-> report_blobs[r]],
             report_blobs')
     /\ LET m == IF restarts' = restarts THEN metadata ELSE DurableIndex
        IN /\ Kept(m.file_hashes, metadata'.file_hashes)
           /\ Kept(m.guides, metadata'.guides)
           /\ Kept(m.reports, metadata'.reports)
           /\ Kept(m.answer_sheet_hashes, metadata'.answer_sheet_hashes)]_vars

\* The failures of the collaborators of a request (document processor,
\* agents and their backend, model validation, file system).
CollaboratorFailures ==
  {"document processing", "question analysis", "backend", "exception",
   "validation", "save_marking_guide", "save_report"}

\* C11: a request whose cache check finds an id recorded for its key but
\* no resident object (the blob was lost or unreadable at start) is a
\* cache miss and not an error: the request goes on to document
\* processing; it fails only when a collaborator fails; and when it
\* returns, it returns a new id, not as cached, and the cache records for
\* its key that id with the object resident, so that the next identical
\* request is a cache hit.
C11_MissingObjectIsCacheMiss ==
  [][\A p \in Procs :
       LET r == run'[p]
           recorded == IF r.kind = "upload"
                       THEN Get(metadata'.file_hashes, compute_file_hash("guide", r.file), 0)
                       ELSE Get(metadata'.answer_sheet_hashes, RunKey(r), 0)
           index == IF r.kind = "upload" THEN marking_guides' ELSE reports'
       IN /\ (run[p].pc = "idle" /\ r.pc # "idle" /\ r.missed # 0) =>
               /\ r.pc \in {"process_marking_guide", "process_answer_sheet"}
               /\ r.error = NoError
          /\ (r.missed # 0 /\ r.pc = "failed") => r.error.cause \in CollaboratorFailures
          /\ (r.missed # 0 /\ r.pc = "done" /\ run[p].pc # "done") =>
               /\ ~r.result.cached
               /\ r.result.id # r.missed
               /\ recorded = r.result.id
               /\ CacheHit(recorded, index)]_vars

\* A marking request that found the recorded report missing and has
\* returned a newly made report.
C11_Witness ==
  \E p \in Procs : run[p].kind = "mark" /\ run[p].pc = "done" /\ run[p].missed # 0

\* C12: what was returned survives a restart: at every start of the process,
\* every guide and every report that an upload or a marking run returned as
\* newly made before is resident again under the id that was returned, and
\* the cache maps its key to that id (so the same bytes are a cache hit
\* returning that id).
C12_ReturnedSurvivesRestart ==
  [][restarts' # restarts =>
       \A e \in issued :
         IF e.key[1] = 0
         THEN /\ e.id \in DOMAIN marking_guides'
              /\ marking_guides'[e.id] = e.obj
              /\ Get(metadata'.file_hashes, e.key[3], 0) = e.id
         ELSE /\ e.id \in DOMAIN reports'
              /\ reports'[e.id] = e.obj
              /\ Get(metadata'.answer_sheet_hashes, e.key, 0) = e.id]_vars

\* C13: a marking request for a guide id that is not resident fails at once
\* with a resource-not-found error: no document processing and no agent is
\* called, the answer cache is neither consulted nor written, no report id
\* is given out, and nothing in memory or in the store changes.
C13_UnknownGuideFailsAtOnce ==
  [][\A p \in Procs :
       ( /\ run[p].pc = "idle"
         /\ run'[p].kind = "mark"
         /\ run'[p].guide_id \notin DOMAIN marking_guides )
       => /\ run'[p].pc = "failed"
          /\ run'[p].error.cause = "ResourceNotFoundError"
          /\ run'[p].log = <<>>
          /\ ~run'[p].consulted
          /\ run'[p].id = 0
          /\ UNCHANGED <<marking_guides, reports, metadata, metadata_file,
                         guide_blobs, report_blobs, next_report, issued>>]_vars

\* A request refused for its guide after a restart, although the answer
\* cache has held, since before the restart, a report for its (guide,
\* student, answer file) key, and that report is resident.
C13_Witness ==
  \E p \in Procs :
    /\ run[p].pc = "failed"
    /\ run[p].error.cause = "ResourceNotFoundError"
    /\ \E e \in issued :
         /\ e.epoch < restarts
         /\ e.key = RunKey(run[p])
         /\ e.id = check_answer_sheet_cache(run[p].guide_id, run[p].student, run[p].file)
         /\ e.id \in DOMAIN reports

\* C20: every failure of a marking run that comes from a pipeline stage
\* names the stage: when an agent call was answered with an error message
\* or raised, the error carries the name of the stage of that call, and
\* when report assembly failed the error carries a stage name too.
C20_FailureNamesStage ==
  \A p \in MarkRuns :
    run[p].pc = "failed" =>
      /\ run[p].bad # 0 => run[p].error.stage = StageName(run[p].log[run[p].bad][1])
      /\ run[p].error.cause = "validation" => run[p].error.stage # ""

\* ======================================================================
\* The data of a marking run: evaluations, scores, grades, the QA audit and
\* the report.  Marks and points are integers; a confidence score is held in
\* tenths, a consistency score in hundredths, and a percentage in
\* 1/PercentUnit of a percent, rounded down (every threshold the code
\* compares a percentage with is a whole number of percent, so rounding down
\* changes no comparison).
\* ======================================================================
MaxMarks == 2       \* the max_marks of a question is at most MaxMarks
MaxPoints == 1      \* points_earned of one concept is at most MaxPoints
MaxConcepts == 2    \* concepts the backend reports for one answer
MaxFlags == 2       \* flags in a QA result handed to report assembly directly
QAMaxMarks == 10    \* max_marks of the evaluations handed to the QA check directly
MaxIssueCount == 10 \* num_issues handed to _calculate_consistency_score directly
MaxFlagCount == 50  \* num_flags handed to _calculate_consistency_score directly
PercentUnit == 100  \* a percentage p is held as the integer part of p * PercentUnit

Qualities == {"excellent", "good", "satisfactory", "poor", "inadequate"}
Grades == {"A+", "A", "A-", "B+", "B", "B-", "C+", "C", "C-", "F"}

Min(a, b) == IF a <= b THEN a ELSE b
Max(a, b) == IF a >= b THEN a ELSE b

\* A function that returned a value, and one that raised.
Returned(value) == [ok |-> TRUE, value |-> value]
ValidationError == [ok |-> FALSE, value |-> "ValidationError"]

\* sum(c.points_earned for c in concepts)
RECURSIVE points_earned(_)
points_earned(concepts) ==
  IF concepts = <<>> THEN 0
  ELSE Head(concepts).points_earned + points_earned(Tail(concepts))

\* marks / max_marks * 100 if max_marks > 0 else 0
Percentage(marks, max_marks) ==
  IF max_marks > 0 THEN (marks * 100 * PercentUnit) \div max_marks ELSE 0

\* AnswerEvaluatorAgent._evaluate_answer, after the backend has replied with
\* evaluation_data for the question: the marks are the sum of the points of
\* the concepts.
AnswerEvaluation(question, evaluation_data) ==
  [question_id |-> question.id,
   concepts_identified |-> evaluation_data.concepts_identified,
   overall_quality |-> evaluation_data.overall_quality,
   confidence_score |-> evaluation_data.confidence_score,
   marks_awarded |-> points_earned(evaluation_data.concepts_identified),
   max_marks |-> question.max_marks]

\* The field constraints of the AnswerEvaluation model.
ValidAnswerEvaluation(e) ==
  /\ e.overall_quality \in Qualities
  /\ e.confidence_score \in 0..10
  /\ e.marks_awarded >= 0
  /\ e.max_marks >= 0
  /\ \A i \in 1..Len(e.concepts_identified) :
       /\ e.concepts_identified[i].points_earned >= 0
       /\ e.concepts_identified[i].points_possible >= 0

\* A grade function whose thresholds are exclusive.
calculate_grade_Exclusive(percentage) ==
  IF percentage > 90 * PercentUnit THEN "A+"
  ELSE IF percentage > 85 * PercentUnit THEN "A"
  ELSE IF percentage > 80 * PercentUnit THEN "A-"
  ELSE IF percentage > 75 * PercentUnit THEN "B+"
  ELSE IF percentage > 70 * PercentUnit THEN "B"
  ELSE IF percentage > 65 * PercentUnit THEN "B-"
  ELSE IF percentage > 60 * PercentUnit THEN "C+"
  ELSE IF percentage > 55 * PercentUnit THEN "C"
  ELSE IF percentage > 50 * PercentUnit THEN "C-"
  ELSE "F"

\* ScoringAgent._calculate_grade
calculate_grade(percentage) ==
  IF percentage >= 90 * PercentUnit THEN "A+"
  ELSE IF percentage >= 85 * PercentUnit THEN "A"
  ELSE IF percentage >= 80 * PercentUnit THEN "A-"
  ELSE IF percentage >= 75 * PercentUnit THEN "B+"
  ELSE IF percentage >= 70 * PercentUnit THEN "B"
  ELSE IF percentage >= 65 * PercentUnit THEN "B-"
  ELSE IF percentage >= 60 * PercentUnit THEN "C+"
  ELSE IF percentage >= 55 * PercentUnit THEN "C"
  ELSE IF percentage >= 50 * PercentUnit THEN "C-"
  ELSE "F"

\* A score of the question that is not limited to the marks of the question.
QuestionScore_Uncapped(eval_data) ==
  LET question_score == points_earned(eval_data.concepts_identified)
      question_max == eval_data.max_marks
  IN [question_id |-> eval_data.question_id,
      marks_awarded |-> question_score,
      max_marks |-> question_max,
      percentage |-> Percentage(question_score, question_max)]

\* The body of the loop of ScoringAgent._calculate_scores: the score of one
\* evaluation.
QuestionScore(eval_data) ==
  LET question_max == eval_data.max_marks
      question_score == Min(points_earned(eval_data.concepts_identified), question_max)
  IN [question_id |-> eval_data.question_id,
      marks_awarded |-> question_score,
      max_marks |-> question_max,
      percentage |-> Percentage(question_score, question_max)]

\* The field constraints of the QuestionScore model.
ValidQuestionScore(s) ==
  /\ s.marks_awarded >= 0
  /\ s.max_marks >= 0
  /\ s.percentage >= 0
  /\ s.percentage <= 100 * PercentUnit

RECURSIVE Total(_, _)
Total(question_scores, field) ==
  IF question_scores = <<>> THEN 0
  ELSE Head(question_scores)[field] + Total(Tail(question_scores), field)

\* The field constraints of the ScoringResult model.
ValidScoringResult(s) ==
  /\ s.total_marks >= 0
  /\ s.max_marks >= 0
  /\ s.percentage >= 0
  /\ s.percentage <= 100 * PercentUnit

\* ScoringAgent._calculate_scores: returns a ScoringResult, or raises when
\* a model constructor rejects a value.
calculate_scores(evaluations) ==
  LET question_scores == [i \in 1..Len(evaluations) |-> QuestionScore(evaluations[i])]
      total_marks == Total(question_scores, "marks_awarded")
      max_marks == Total(question_scores, "max_marks")
      percentage == Percentage(total_marks, max_marks)
      result == [total_marks |-> total_marks,
                 max_marks |-> max_marks,
                 percentage |-> percentage,
                 question_scores |-> question_scores,
                 grade |-> calculate_grade(percentage),
                 passed |-> percentage >= 50 * PercentUnit]
  IN IF /\ \A i \in 1..Len(question_scores) : ValidQuestionScore(question_scores[i])
        /\ ValidScoringResult(result)
     THEN Returned(result)
     ELSE ValidationError

QAFlag(eval_data, reason, severity) ==
  [question_id |-> eval_data.question_id, reason |-> reason, severity |-> severity]

\* QAAgent._check_low_confidence
check_low_confidence(evaluations) ==
  LET found == SelectSeq(evaluations, LAMBDA e : e.confidence_score < 6)
  IN [i \in 1..Len(found) |->
        QAFlag(found[i], "Low confidence score",
               IF found[i].confidence_score < 4 THEN "high" ELSE "medium")]

\* The test of QAAgent._check_scoring_consistency.
ExceedsMaximum(eval_data) ==
  points_earned(eval_data.concepts_identified) > eval_data.max_marks

\* QAAgent._check_scoring_consistency
check_scoring_consistency(evaluations) ==
  LET found == SelectSeq(evaluations, ExceedsMaximum)
  IN [i \in 1..Len(found) |->
        [question_id |-> found[i].question_id, issue |-> "Score exceeds maximum"]]

\* QAAgent._check_mandatory_concepts
check_mandatory_concepts(evaluations) ==
  LET found == SelectSeq(evaluations,
                         LAMBDA e :
                           /\ \E i \in 1..Len(e.concepts_identified) :
                                /\ ~e.concepts_identified[i].present
                                /\ e.concepts_identified[i].points_possible > 1
                           /\ e.overall_quality \in {"excellent", "good"})
  IN [i \in 1..Len(found) |->
        QAFlag(found[i], "High score despite missing key concepts", "medium")]

\* A test for a high score that leaves out the score of exactly 80 percent.
HighScorePoorQuality_Above(eval_data) ==
  /\ Percentage(eval_data.marks_awarded, eval_data.max_marks) > 80 * PercentUnit
  /\ eval_data.overall_quality \in {"poor", "inadequate"}

\* The tests of QAAgent._check_score_discrepancies.
HighScorePoorQuality(eval_data) ==
  /\ Percentage(eval_data.marks_awarded, eval_data.max_marks) >= 80 * PercentUnit
  /\ eval_data.overall_quality \in {"poor", "inadequate"}

LowScoreHighQuality(eval_data) ==
  /\ Percentage(eval_data.marks_awarded, eval_data.max_marks) < 50 * PercentUnit
  /\ eval_data.overall_quality \in {"excellent", "good"}

\* QAAgent._check_score_discrepancies
check_score_discrepancies(evaluations) ==
  LET found == SelectSeq(evaluations,
                         LAMBDA e : HighScorePoorQuality(e) \/ LowScoreHighQuality(e))
  IN [i \in 1..Len(found) |->
        QAFlag(found[i], IF HighScorePoorQuality(found[i])
                         THEN "High score but poor quality rating"
                         ELSE "Low score but high quality rating", "high")]

quality_map(quality) ==
  CASE quality = "excellent" -> 5
    [] quality = "good" -> 4
    [] quality = "satisfactory" -> 3
    [] quality = "poor" -> 2
    [] quality = "inadequate" -> 1

\* Tiers whose lower ends are exclusive.
expected_quality_Exclusive(percentage) ==
  IF percentage > 90 * PercentUnit THEN "excellent"
  ELSE IF percentage > 70 * PercentUnit THEN "good"
  ELSE IF percentage > 50 * PercentUnit THEN "satisfactory"
  ELSE IF percentage > 30 * PercentUnit THEN "poor"
  ELSE "inadequate"

expected_quality(percentage) ==
  IF percentage >= 90 * PercentUnit THEN "excellent"
  ELSE IF percentage >= 70 * PercentUnit THEN "good"
  ELSE IF percentage >= 50 * PercentUnit THEN "satisfactory"
  ELSE IF percentage >= 30 * PercentUnit THEN "poor"
  ELSE "inadequate"

\* A test that wants three levels between the ratings.
Misaligned_ThreeLevels(eval_data) ==
  LET expected_level ==
        quality_map(expected_quality(Percentage(eval_data.marks_awarded, eval_data.max_marks)))
      actual_level == quality_map(eval_data.overall_quality)
  IN \/ expected_level - actual_level >= 3
     \/ actual_level - expected_level >= 3

\* The test of QAAgent._check_quality_alignment: the rating is two or more
\* levels away from the one the percentage suggests.
Misaligned(eval_data) ==
  LET expected_level ==
        quality_map(expected_quality(Percentage(eval_data.marks_awarded, eval_data.max_marks)))
      actual_level == quality_map(eval_data.overall_quality)
  IN \/ expected_level - actual_level >= 2
     \/ actual_level - expected_level >= 2

\* QAAgent._check_quality_alignment
check_quality_alignment(evaluations) ==
  LET found == SelectSeq(evaluations, Misaligned)
  IN [i \in 1..Len(found) |->
        QAFlag(found[i], "Quality rating doesn't match score percentage", "low")]

\* A consistency score that is not clamped.
calculate_consistency_score_Unclamped(evaluations, num_issues, num_flags) ==
  IF evaluations = <<>> THEN 100
  ELSE 100 - num_issues * 20 - num_flags * 5

\* QAAgent._calculate_consistency_score, in hundredths.
calculate_consistency_score(evaluations, num_issues, num_flags) ==
  IF evaluations = <<>> THEN 100
  ELSE Max(0, Min(100, 100 - num_issues * 20 - num_flags * 5))

\* A tier that looks at the consistency score only.
confidence_level_ScoreOnly(consistency_score, flags) ==
  IF consistency_score >= 90 THEN "high"
  ELSE IF consistency_score >= 70 THEN "medium"
  ELSE "low"

\* The confidence level _perform_qa_check determines.
confidence_level(consistency_score, flags) ==
  IF consistency_score >= 90 /\ flags = <<>> THEN "high"
  ELSE IF consistency_score >= 70 THEN "medium"
  ELSE "low"

\* An audit that passes whenever no flag was raised.
Passed_NoFlags(issues, flags) == Len(flags) = 0

\* passed = not has_issues
Passed(issues, flags) == ~(Len(issues) > 0)

\* QAAgent._perform_qa_check
perform_qa_check(evaluations) ==
  LET flags == check_low_confidence(evaluations)
                 \o check_mandatory_concepts(evaluations)
                 \o check_score_discrepancies(evaluations)
                 \o check_quality_alignment(evaluations)
      issues == check_scoring_consistency(evaluations)
      consistency_score ==
        calculate_consistency_score(evaluations, Len(issues), Len(flags))
  IN [passed |-> Passed(issues, flags),
      requires_human_review |-> Len(flags) > 0,
      flags |-> flags,
      issues |-> issues,
      confidence_level |-> confidence_level(consistency_score, flags),
      consistency_score |-> consistency_score]

\* The field constraints of the QAResult model.
ValidQAResult(qa_result) ==
  /\ qa_result.confidence_level \in {"high", "medium", "low"}
  /\ qa_result.consistency_score >= 0
  /\ qa_result.consistency_score <= 100

\* A priority that looks at the confidence tier only.
review_priority_TierOnly(qa_result) ==
  IF qa_result.confidence_level = "low" THEN "high"
  ELSE IF qa_result.confidence_level = "medium" THEN "medium"
  ELSE "low"

\* A priority that is medium only for an audit that carries a flag.
review_priority_FlagsOnly(qa_result) ==
  IF qa_result.confidence_level = "low" THEN "high"
  ELSE IF Len(qa_result.flags) > 0 THEN "medium"
  ELSE "low"

\* The priority OrchestratorAgent._generate_report gives a report.
review_priority(qa_result) ==
  IF qa_result.confidence_level = "low" THEN "high"
  ELSE IF qa_result.confidence_level = "medium" \/ Len(qa_result.flags) > 0 THEN "medium"
  ELSE "low"

\* OrchestratorAgent._generate_report: the dictionaries are turned into
\* models (which raises when a field constraint is broken) and the report
\* is assembled.
generate_report(student_id, evaluations, scores, feedback, qa_result) ==
  IF /\ \A i \in 1..Len(evaluations) : ValidAnswerEvaluation(evaluations[i])
     /\ ValidScoringResult(scores)
     /\ \A i \in 1..Len(scores.question_scores) : ValidQuestionScore(scores.question_scores[i])
     /\ ValidQAResult(qa_result)
  THEN Returned([student_id |-> student_id,
                 scoring_result |-> scores,
                 question_evaluations |-> evaluations,
                 feedback_report |-> feedback,
                 qa_result |-> qa_result,
                 requires_review |-> qa_result.requires_human_review,
                 review_priority |-> review_priority(qa_result)])
  ELSE ValidationError

\* ------------------------------------------------- single function calls
\* The functions of the agents, each called once on an input drawn from a
\* bounded set.
Percentages == 0..(100 * PercentUnit)
Tiers == {"high", "medium", "low"}

\* An evaluation dictionary as the agents pass it on.
EvaluationDict(question_id, max_marks, concepts, quality, confidence) ==
  [question_id |-> question_id,
   concepts_identified |-> concepts,
   overall_quality |-> quality,
   confidence_score |-> confidence,
   marks_awarded |-> points_earned(concepts),
   max_marks |-> max_marks]

\* All sequences over S of length at most n.
SeqUpTo(S, n) == UNION {[1..k -> S] : k \in 0..n}

\* Concept lists that differ in the points they earn.
PointLists ==
  SeqUpTo({[present |-> TRUE, points_earned |-> x, points_possible |-> MaxPoints] :
             x \in 0..MaxPoints}, MaxConcepts)

\* Evaluation lists handed to score aggregation: one evaluation for each
\* of the first k questions, a question carrying 0..MaxMarks marks.
ScoringInputs ==
  UNION {{[q \in 1..k |-> EvaluationDict(q, m[q], c[q], "good", 10)] :
            m \in [1..k -> 0..MaxMarks], c \in [1..k -> PointLists]} :
         k \in 0..NumQuestions}

\* QA results handed to report assembly, not only those the QA agent of the
\* repository computes.
QAResults ==
  {[passed |-> TRUE,
    requires_human_review |-> review,
    flags |-> [i \in 1..n |-> [question_id |-> 1, reason |-> "flag", severity |-> severity]],
    issues |-> <<>>,
    confidence_level |-> tier,
    consistency_score |-> 100] :
     review \in BOOLEAN, n \in 0..MaxFlags, tier \in Tiers,
     severity \in {"low", "high"}}

\* Evaluation lists handed to the QA check.  A single evaluation of a
\* question of 0 or QAMaxMarks marks, with every marks_awarded up to one
\* above QAMaxMarks (percentages 0, 10, .., 100 and more), every quality,
\* confidence 0.3, 0.5 or 1.0, and no concept, an absent concept of 2
\* points, or a concept that earns more than the question carries.  And
\* lists of two or three evaluations each of which is clean, has an issue
\* and no flag, or is flagged by three checks.
QAInputs ==
  LET absent == <<[present |-> FALSE, points_earned |-> 0, points_possible |-> 2]>>
      exceeding == <<[present |-> TRUE, points_earned |-> QAMaxMarks + 1,
                      points_possible |-> QAMaxMarks]>>
      Dict(m, awarded, c, quality, confidence) ==
        [EvaluationDict(1, m, c, quality, confidence) EXCEPT !.marks_awarded = awarded]
      single == {Dict(m, awarded, c, quality, confidence) :
                   m \in {0, QAMaxMarks}, awarded \in 0..(QAMaxMarks + 1),
                   c \in {<<>>, absent, exceeding},
                   quality \in Qualities, confidence \in {3, 5, 10}}
      typical == {Dict(QAMaxMarks, QAMaxMarks, <<>>, "excellent", 10),
                  Dict(QAMaxMarks, QAMaxMarks, exceeding, "excellent", 10),
                  Dict(QAMaxMarks, 0, <<>>, "excellent", 3)}
      several == UNION {{[q \in 1..k |-> [t[q] EXCEPT !.question_id = q]] :
                           t \in [1..k -> typical]} : k \in 2..3}
  IN {<<e>> : e \in single} \cup several

NoFeedback == [question_feedback |-> <<>>]

InitFunctions ==
  /\ ServiceInit
  /\ answer_sheets = [a \in AnswerFiles |-> Questions]
  /\ pipeline = NoPipeline
  /\ \/ \E percentage \in Percentages :
          call = [fn |-> "calculate_grade", arg |-> percentage, done |-> FALSE]
     \/ \E evaluations \in ScoringInputs :
          call = [fn |-> "calculate_scores", arg |-> evaluations, done |-> FALSE]
     \/ \E qa_result \in QAResults :
          call = [fn |-> "generate_report", arg |-> qa_result, done |-> FALSE]
     \/ \E evaluations \in QAInputs :
          call = [fn |-> "perform_qa_check", arg |-> evaluations, done |-> FALSE]
     \/ call = [fn |-> "call_claude", arg |-> "user_message", done |-> FALSE,
                retry_count |-> 0, attempts |-> <<>>,
                result |-> [ok |-> FALSE, value |-> "pending"]]
     \/ \E num_issues \in 0..MaxIssueCount, num_flags \in 0..MaxFlagCount :
          call = [fn |-> "calculate_consistency_score",
                  arg |-> [num_issues |-> num_issues, num_flags |-> num_flags],
                  done |-> FALSE]

Done(result) == [fn |-> call.fn, arg |-> call.arg, done |-> TRUE, result |-> result]

CallCalculateGrade ==
  /\ call.fn = "calculate_grade"
  /\ ~call.done
  /\ call' = Done(calculate_grade(call.arg))
  /\ UNCHANGED <<service, pipeline>>

CallCalculateScores ==
  /\ call.fn = "calculate_scores"
  /\ ~call.done
  /\ call' = Done(calculate_scores(call.arg))
  /\ UNCHANGED <<service, pipeline>>

\* _generate_report on the evaluations, scores and feedback of a sheet
\* without answers and the QA result of the input.
CallGenerateReport ==
  /\ call.fn = "generate_report"
  /\ ~call.done
  /\ call' = Done(generate_report(1, <<>>, calculate_scores(<<>>).value,
                                  NoFeedback, call.arg))
  /\ UNCHANGED <<service, pipeline>>

\* _calculate_consistency_score for a list of one evaluation (the function
\* looks at the list only to see whether it is empty).
CallCalculateConsistencyScore ==
  /\ call.fn = "calculate_consistency_score"
  /\ ~call.done
  /\ call' = Done(calculate_consistency_score(
                     <<EvaluationDict(1, MaxMarks, <<>>, "good", 10)>>,
                     call.arg.num_issues, call.arg.num_flags))
  /\ UNCHANGED <<service, pipeline>>

CallPerformQaCheck ==
  /\ call.fn = "perform_qa_check"
  /\ ~call.done
  /\ call' = Done(perform_qa_check(call.arg))
  /\ UNCHANGED <<service, pipeline>>

\* What client.messages.create does in one attempt: it returns a response,
\* raises a ValueError whose text holds "malformed function call", raises
\* another ValueError, or raises another exception.
BackendOutcomes == {"response", "malformed", "ValueError", "Exception"}

\* A rule that retries after every ValueError.
ShouldRetry_AnyValueError(outcome, retry_count) ==
  outcome \in {"malformed", "ValueError"} /\ retry_count = 0

\* "malformed function call" in error_msg.lower() and retry_count == 0
ShouldRetry(outcome, retry_count) == outcome = "malformed" /\ retry_count = 0

\* One activation of BaseAgent._call_claude: one attempt at the backend.
\* It returns the response, calls itself with retry_count + 1 (whose
\* outcome it passes on unchanged), or re-raises the error.
CallClaudeAttempt ==
  /\ call.fn = "call_claude"
  /\ ~call.done
  /\ \E outcome \in BackendOutcomes :
       LET attempts == Append(call.attempts, outcome)
       IN IF outcome = "response"
          THEN call' = [call EXCEPT !.done = TRUE, !.attempts = attempts,
                                    !.result = Returned("response")]
          ELSE IF ShouldRetry(outcome, call.retry_count)
          THEN call' = [call EXCEPT !.attempts = attempts, !.retry_count = @ + 1]
          ELSE call' = [call EXCEPT !.done = TRUE, !.attempts = attempts,
                                    !.result = [ok |-> FALSE, value |-> outcome]]
  /\ UNCHANGED <<service, pipeline>>

NextFunctions ==
  \/ CallCalculateGrade
  \/ CallCalculateScores
  \/ CallGenerateReport
  \/ CallCalculateConsistencyScore
  \/ CallPerformQaCheck
  \/ CallClaudeAttempt

SpecFunctions == InitFunctions /\ [][NextFunctions]_vars

\* Every attempt at the backend comes to an end: it returns or raises.
SpecFunctionsFair == SpecFunctions /\ WF_vars(CallClaudeAttempt)

\* ------------------------------------------------ the data of one run
\* OrchestratorAgent.mark_answer_sheet with the agents of the repository,
\* followed at the level of its data.  The backend always replies; what it
\* replies is drawn from BackendEvaluations.  The sheet is one of the answer
\* documents, the guide gives each question 1..MaxMarks marks.
Confidences == {3, 10}

Concepts ==
  [present : BOOLEAN, points_earned : 0..MaxPoints, points_possible : {MaxMarks}]

\* The structured output of the backend for one answer.
BackendEvaluations ==
  [concepts_identified : SeqUpTo(Concepts, MaxConcepts),
   overall_quality : Qualities,
   confidence_score : Confidences]

AnalyzedQuestions(marks) == [i \in Questions |-> [id |-> i, max_marks |-> marks[i]]]

\* The run at its start: the questions of the guide, the questions the
\* sheet holds an Answer for, and those among them whose answer_text is
\* empty.
StartPipeline(marks, answers, blank) ==
  [stage |-> "evaluate",
   student_id |-> 1,
   questions |-> AnalyzedQuestions(marks),
   answers |-> answers,
   blank |-> blank,
   i |-> 0,
   evaluations |-> <<>>,
   scores |-> <<>>,
   feedback |-> <<>>,
   qa_result |-> <<>>,
   report |-> <<>>,
   error |-> ""]

\* Sheets whose answers all have text.
InitPipeline ==
  /\ ServiceInit
  /\ call = NoCall
  /\ \E marks \in [Questions -> 1..MaxMarks], a \in AnswerFiles :
       pipeline = StartPipeline(marks, answer_sheets[a], {})

\* Sheets in which any of the answers may have an empty text.
InitBlank ==
  /\ ServiceInit
  /\ call = NoCall
  /\ \E marks \in [Questions -> 1..MaxMarks], a \in AnswerFiles :
       \E blank \in SUBSET answer_sheets[a] :
         pipeline = StartPipeline(marks, answer_sheets[a], blank)

\* The position of the next question of the guide the sheet answers, or 0.
NextQuestion ==
  NextAnswered([i \in 1..Len(pipeline.questions) |-> pipeline.questions[i].id],
               pipeline.answers, pipeline.i)

\* One iteration of the loop that finds an answer.  The orchestrator sends
\* the answer_text to the evaluator, which answers an empty text with an
\* error message ("if not student_answer") and otherwise builds the
\* AnswerEvaluation from the reply of the backend.
Evaluate ==
  /\ pipeline.stage = "evaluate"
  /\ NextQuestion # 0
  /\ IF pipeline.questions[NextQuestion].id \in pipeline.blank
     THEN pipeline' = [pipeline EXCEPT
            !.stage = "failed",
            !.error = "Answer evaluation failed: No student_answer found in message content"]
     ELSE \E evaluation_data \in BackendEvaluations :
            LET evaluation == AnswerEvaluation(pipeline.questions[NextQuestion], evaluation_data)
            IN IF ValidAnswerEvaluation(evaluation)
               THEN pipeline' = [pipeline EXCEPT !.i = NextQuestion,
                                                 !.evaluations = Append(@, evaluation)]
               ELSE pipeline' = [pipeline EXCEPT !.stage = "failed",
                                                 !.error = "Answer evaluation failed"]
  /\ UNCHANGED <<service, call>>

\* The loop is over: ScoringAgent.process.
Score ==
  /\ pipeline.stage = "evaluate"
  /\ NextQuestion = 0
  /\ LET scores == calculate_scores(pipeline.evaluations)
     IN IF pipeline.evaluations = <<>>
        THEN pipeline' = [pipeline EXCEPT !.stage = "failed", !.error = NoEvaluations]
        ELSE IF scores.ok
        THEN pipeline' = [pipeline EXCEPT !.stage = NextStage("score"),
                                          !.scores = scores.value]
        ELSE pipeline' = [pipeline EXCEPT !.stage = "failed", !.error = "Scoring failed"]
  /\ UNCHANGED <<service, call>>

\* FeedbackGeneratorAgent.process: one piece of feedback for each evaluation.
GiveFeedback ==
  /\ pipeline.stage = "feedback"
  /\ pipeline' = [pipeline EXCEPT
       !.stage = NextStage("feedback"),
       !.feedback = [question_feedback |->
                       [i \in 1..Len(pipeline.evaluations) |->
                          pipeline.evaluations[i].question_id]]]
  /\ UNCHANGED <<service, call>>

\* QAAgent.process
Review ==
  /\ pipeline.stage = "qa"
  /\ pipeline' = [pipeline EXCEPT !.stage = NextStage("qa"),
                                  !.qa_result = perform_qa_check(pipeline.evaluations)]
  /\ UNCHANGED <<service, call>>

\* _generate_report: the report is returned, or a constructor raises.
AssembleReport ==
  /\ pipeline.stage = "report"
  /\ LET report == generate_report(pipeline.student_id, pipeline.evaluations,
                                   pipeline.scores, pipeline.feedback, pipeline.qa_result)
     IN IF report.ok
        THEN pipeline' = [pipeline EXCEPT !.stage = "done", !.report = report.value]
        ELSE pipeline' = [pipeline EXCEPT !.stage = "failed", !.error = report.value]
  /\ UNCHANGED <<service, call>>

NextPipeline ==
  \/ Evaluate
  \/ Score
  \/ GiveFeedback
  \/ Review
  \/ AssembleReport

SpecPipeline == InitPipeline /\ [][NextPipeline]_vars

SpecBlank == InitBlank /\ [][NextPipeline]_vars

\* ------------------------------------------------ claims on the functions
\* C15: after score aggregation, for every input evaluation list, the
\* aggregation returns a result in which each question score has
\* marks_awarded equal to the smaller of the sum of the points earned by the
\* concepts and max_marks, hence at most max_marks, and the overall
\* total_marks is at most the overall max_marks.
C15_ScoresAreCapped ==
  (call.fn = "calculate_scores" /\ call.done) =>
    /\ call.result.ok
    /\ LET scores == call.result.value
       IN /\ Len(scores.question_scores) = Len(call.arg)
          /\ \A i \in 1..Len(call.arg) :
               /\ scores.question_scores[i].marks_awarded =
                    Min(points_earned(call.arg[i].concepts_identified), call.arg[i].max_marks)
               /\ scores.question_scores[i].marks_awarded
                    <= scores.question_scores[i].max_marks
          /\ scores.total_marks <= scores.max_marks

\* An aggregated list with an evaluation whose concepts earn more than the
\* question carries, scored at the marks of the question.
C15_Witness ==
  /\ call.fn = "calculate_scores"
  /\ call.done
  /\ call.result.ok
  /\ \E i \in 1..Len(call.arg) :
       /\ points_earned(call.arg[i].concepts_identified) > call.arg[i].max_marks
       /\ call.arg[i].max_marks > 0
       /\ call.result.value.question_scores[i].marks_awarded = call.arg[i].max_marks

GradeRank(grade) ==
  CASE grade = "F" -> 0
    [] grade = "C-" -> 1
    [] grade = "C" -> 2
    [] grade = "C+" -> 3
    [] grade = "B-" -> 4
    [] grade = "B" -> 5
    [] grade = "B+" -> 6
    [] grade = "A-" -> 7
    [] grade = "A" -> 8
    [] grade = "A+" -> 9

\* The grade at each whole percentage the boundaries are stated for.
Boundaries ==
  {<<49, "F">>, <<50, "C-">>, <<55, "C">>, <<60, "C+">>, <<65, "B-">>,
   <<70, "B">>, <<75, "B+">>, <<80, "A-">>, <<85, "A">>, <<90, "A+">>}

\* C17: for every percentage in [0, 100] _calculate_grade returns one of
\* the ten grades A+, A, A-, B+, B, B-, C+, C, C-, F; the grade does not
\* fall when the percentage rises (it is at least the grade of the next
\* smaller percentage); and 49 gives F, 50 C-, 55 C, 60 C+, 65 B-, 70 B,
\* 75 B+, 80 A-, 85 A, 90 A+.
C17_GradeBoundaries ==
  (call.fn = "calculate_grade" /\ call.done) =>
    /\ call.result \in Grades
    /\ call.arg > 0 =>
         GradeRank(calculate_grade(call.arg - 1)) <= GradeRank(call.result)
    /\ \A b \in Boundaries : call.arg = b[1] * PercentUnit => call.result = b[2]

\* The grade of exactly 50 percent has been computed and is C-.
C17_Witness ==
  /\ call.fn = "calculate_grade"
  /\ call.done
  /\ call.arg = 50 * PercentUnit
  /\ call.result = "C-"

\* C18: in every assembled report requires_review equals the audit's
\* requires_human_review, and review_priority is high when the audit's
\* confidence tier is low, otherwise medium when the tier is medium or the
\* audit carries at least one flag, otherwise low.
C18_ReviewPriority ==
  (call.fn = "generate_report" /\ call.done) =>
    /\ call.result.ok
    /\ call.result.value.requires_review = call.arg.requires_human_review
    /\ call.result.value.review_priority =
         (IF call.arg.confidence_level = "low" THEN "high"
          ELSE IF call.arg.confidence_level = "medium" \/ Len(call.arg.flags) >= 1
               THEN "medium"
          ELSE "low")

\* A report assembled from an audit of tier high that carries a flag: its
\* priority is medium.
C18_Witness ==
  /\ call.fn = "generate_report"
  /\ call.done
  /\ call.arg.confidence_level = "high"
  /\ Len(call.arg.flags) >= 1
  /\ call.result.ok
  /\ call.result.value.review_priority = "medium"

\* ------------------------------------------------ claims on the run's data
\* The positions of the questions of the guide that the sheet answers.
Answered ==
  {i \in 1..Len(pipeline.questions) :
     HasAnswer(pipeline.answers, pipeline.questions[i].id)}

RECURSIVE MarksOf(_)
MarksOf(positions) ==
  IF positions = {} THEN 0
  ELSE LET i == CHOOSE j \in positions : TRUE
       IN pipeline.questions[i].max_marks + MarksOf(positions \ {i})

\* C14: for a guide with n questions and a sheet that answers n-k of them
\* (at least one), the run does not fail, no evaluation is made for a
\* question without an answer, and the returned report holds exactly n-k
\* evaluations, one for each answered question and none for another, and
\* the max_marks of its scoring result is the sum of the max_marks of the
\* answered questions only.
C14_OnlyAnsweredQuestionsCount ==
  /\ (pipeline.stage = "failed") => Answered = {}
  /\ \A i \in 1..Len(pipeline.evaluations) :
       HasAnswer(pipeline.answers, pipeline.evaluations[i].question_id)
  /\ (pipeline.stage = "done") =>
       /\ Len(pipeline.report.question_evaluations) = Cardinality(Answered)
       /\ {pipeline.report.question_evaluations[i].question_id :
             i \in 1..Len(pipeline.report.question_evaluations)}
            = {pipeline.questions[i].id : i \in Answered}
       /\ pipeline.report.scoring_result.max_marks = MarksOf(Answered)

\* A report for a sheet that leaves a question of the guide unanswered.
C14_Witness ==
  /\ pipeline.stage = "done"
  /\ Answered # {}
  /\ Cardinality(Answered) < Len(pipeline.questions)
  /\ Len(pipeline.report.question_evaluations) = Cardinality(Answered)

\* C16: every evaluation carried in a report has marks_awarded equal to the
\* sum of the points earned by its concepts capped at max_marks, so
\* marks_awarded <= max_marks.
C16_EvaluationMarksCapped ==
  (pipeline.stage = "done") =>
    \A i \in 1..Len(pipeline.report.question_evaluations) :
      LET evaluation == pipeline.report.question_evaluations[i]
      IN /\ evaluation.marks_awarded =
              Min(points_earned(evaluation.concepts_identified), evaluation.max_marks)
         /\ evaluation.marks_awarded <= evaluation.max_marks

\* C19: a run with an evaluation whose concepts earn more points than the
\* question carries does not fail; the report it returns has an audit with
\* passed = false and an issue for that question; and in every audit passed
\* is true exactly when the issue list is empty, whatever flags were raised.
C19_ViolationIsReportedNotRaised ==
  /\ (\E i \in 1..Len(pipeline.evaluations) : ExceedsMaximum(pipeline.evaluations[i]))
       => pipeline.stage # "failed"
  /\ (pipeline.stage = "done") =>
       /\ pipeline.report.qa_result.passed <=> (Len(pipeline.report.qa_result.issues) = 0)
       /\ \A i \in 1..Len(pipeline.evaluations) :
            ExceedsMaximum(pipeline.evaluations[i]) =>
              /\ ~pipeline.report.qa_result.passed
              /\ \E k \in 1..Len(pipeline.report.qa_result.issues) :
                   pipeline.report.qa_result.issues[k].question_id
                     = pipeline.evaluations[i].question_id
  /\ (pipeline.stage = "report") =>
       pipeline.qa_result.passed <=> (Len(pipeline.qa_result.issues) = 0)

\* A returned report with an evaluation that exceeds the marks of its
\* question, an audit that did not pass, and flags raised besides.
C19_Witness ==
  /\ pipeline.stage = "done"
  /\ \E i \in 1..Len(pipeline.evaluations) : ExceedsMaximum(pipeline.evaluations[i])
  /\ ~pipeline.report.qa_result.passed
  /\ Len(pipeline.report.qa_result.flags) > 0

C22_BlankSheetIsMarked ==
  (pipeline.answers # {} /\ pipeline.blank = pipeline.answers) =>
    /\ pipeline.stage # "failed"
    /\ (pipeline.stage = "done") =>
         /\ pipeline.report.scoring_result.total_marks * 10
              <= pipeline.report.scoring_result.max_marks * 3
         /\ ~pipeline.report.scoring_result.passed

\* ------------------------------------------------ claims on the functions (2)
\* C23: for a non-empty evaluation list with i issues and f flags the
\* consistency score is 1.0 - 0.2*i - 0.05*f clamped to [0, 1] (here in
\* hundredths: 100 - 20*i - 5*f clamped to 0..100); 0 issues and 3 flags
\* give 0.85, 2 issues and 3 flags give 0.45, 10 issues and 50 flags give 0.
C23_ConsistencyScore ==
  (call.fn = "calculate_consistency_score" /\ call.done) =>
    LET i == call.arg.num_issues
        f == call.arg.num_flags
        raw == 100 - 20 * i - 5 * f
    IN /\ call.result = (IF raw < 0 THEN 0 ELSE IF raw > 100 THEN 100 ELSE raw)
       /\ (i = 0 /\ f = 3) => call.result = 85
       /\ (i = 2 /\ f = 3) => call.result = 45
       /\ (i = 10 /\ f = 50) => call.result = 0

\* The score of 10 issues and 50 flags has been computed: it is 0.
C23_Witness ==
  /\ call.fn = "calculate_consistency_score"
  /\ call.done
  /\ call.arg.num_issues = 10
  /\ call.arg.num_flags = 50
  /\ call.result = 0

\* C24: the audit's confidence tier is high exactly when the consistency
\* score is >= 0.9 and there is no flag, medium when it is not high and the
\* score is >= 0.7, and low otherwise; an audit with no issue and three
\* flags (score 0.85) has tier medium.
C24_ConfidenceTier ==
  (call.fn = "perform_qa_check" /\ call.done) =>
    LET audit == call.result
        high == audit.consistency_score >= 90 /\ Len(audit.flags) = 0
    IN /\ (audit.confidence_level = "high") <=> high
       /\ (audit.confidence_level = "medium") <=> (~high /\ audit.consistency_score >= 70)
       /\ (audit.confidence_level = "low") <=> (~high /\ audit.consistency_score < 70)
       /\ (Len(audit.issues) = 0 /\ Len(audit.flags) = 3) =>
            /\ audit.consistency_score = 85
            /\ audit.confidence_level = "medium"

\* An audit with no issue and three flags has been computed: its tier is
\* medium.
C24_Witness ==
  /\ call.fn = "perform_qa_check"
  /\ call.done
  /\ Len(call.result.issues) = 0
  /\ Len(call.result.flags) = 3
  /\ call.result.confidence_level = "medium"

\* C25: the score/quality-discrepancy check raises a flag, of severity
\* high, for an evaluation exactly when its percentage (marks_awarded /
\* max_marks * 100, 0 when max_marks is 0) is >= 80 with quality poor or
\* inadequate, or is < 50 with quality excellent or good; in every other
\* case the check raises no flag for the evaluation.
C25_DiscrepancyFlags ==
  (call.fn = "perform_qa_check" /\ call.done) =>
    \A k \in 1..Len(call.arg) :
      LET e == call.arg[k]
          raised == {j \in 1..Len(call.result.flags) :
                       /\ call.result.flags[j].question_id = e.question_id
                       /\ call.result.flags[j].reason \in
                            {"High score but poor quality rating",
                             "Low score but high quality rating"}}
          high_score == e.max_marks > 0 /\ e.marks_awarded * 100 >= 80 * e.max_marks
          low_score == e.max_marks = 0 \/ e.marks_awarded * 100 < 50 * e.max_marks
          discrepant == \/ high_score /\ e.overall_quality \in {"poor", "inadequate"}
                        \/ low_score /\ e.overall_quality \in {"excellent", "good"}
      IN /\ Cardinality(raised) = (IF discrepant THEN 1 ELSE 0)
         /\ \A j \in raised : call.result.flags[j].severity = "high"

\* An evaluation of exactly 80 percent rated poor has been audited and the
\* check has flagged it.
C25_Witness ==
  /\ call.fn = "perform_qa_check"
  /\ call.done
  /\ Len(call.arg) = 1
  /\ call.arg[1].max_marks > 0
  /\ call.arg[1].marks_awarded * 100 = 80 * call.arg[1].max_marks
  /\ call.arg[1].overall_quality = "poor"
  /\ \E j \in 1..Len(call.result.flags) :
       /\ call.result.flags[j].reason = "High score but poor quality rating"
       /\ call.result.flags[j].severity = "high"

\* C26: the quality-alignment check takes the tier expected for the
\* percentage of an evaluation (>= 90 excellent, >= 70 good, >= 50
\* satisfactory, >= 30 poor, else inadequate), the ordinals inadequate = 1,
\* poor = 2, satisfactory = 3, good = 4, excellent = 5 of the expected and
\* the actual tier, and raises a flag, of severity low, for the evaluation
\* exactly when the ordinals differ by 2 or more.
C26_AlignmentFlags ==
  (call.fn = "perform_qa_check" /\ call.done) =>
    \A k \in 1..Len(call.arg) :
      LET e == call.arg[k]
          raised == {j \in 1..Len(call.result.flags) :
                       /\ call.result.flags[j].question_id = e.question_id
                       /\ call.result.flags[j].reason =
                            "Quality rating doesn't match score percentage"}
          AtLeast(percent) == e.max_marks > 0 /\ e.marks_awarded * 100 >= percent * e.max_marks
          expected == IF AtLeast(90) THEN 5
                      ELSE IF AtLeast(70) THEN 4
                      ELSE IF AtLeast(50) THEN 3
                      ELSE IF AtLeast(30) THEN 2
                      ELSE 1
          actual == CASE e.overall_quality = "excellent" -> 5
                      [] e.overall_quality = "good" -> 4
                      [] e.overall_quality = "satisfactory" -> 3
                      [] e.overall_quality = "poor" -> 2
                      [] e.overall_quality = "inadequate" -> 1
      IN /\ Cardinality(raised) =
              (IF expected - actual >= 2 \/ actual - expected >= 2 THEN 1 ELSE 0)
         /\ \A j \in raised : call.result.flags[j].severity = "low"

\* An evaluation of exactly 90 percent rated satisfactory has been audited
\* and the check has flagged it.
C26_Witness ==
  /\ call.fn = "perform_qa_check"
  /\ call.done
  /\ Len(call.arg) = 1
  /\ call.arg[1].max_marks > 0
  /\ call.arg[1].marks_awarded * 100 = 90 * call.arg[1].max_marks
  /\ call.arg[1].overall_quality = "satisfactory"
  /\ \E j \in 1..Len(call.result.flags) :
       /\ call.result.flags[j].reason = "Quality rating doesn't match score percentage"
       /\ call.result.flags[j].severity = "low"

\* C30: whenever the score/quality-discrepancy check flags an evaluation,
\* the quality-alignment check flags the same evaluation too, so the
\* evaluation has at least two flags, and the consistency score of the
\* audit is at most 1.0 less 0.10 for each such evaluation (or 0).
C30_DiscrepancyImpliesMisalignment ==
  (call.fn = "perform_qa_check" /\ call.done) =>
    LET flags == call.result.flags
        Flagged(q, reasons) ==
          \E j \in 1..Len(flags) : flags[j].question_id = q /\ flags[j].reason \in reasons
        discrepant == {k \in 1..Len(call.arg) :
                         Flagged(call.arg[k].question_id,
                                 {"High score but poor quality rating",
                                  "Low score but high quality rating"})}
    IN /\ \A k \in discrepant :
            /\ Flagged(call.arg[k].question_id,
                       {"Quality rating doesn't match score percentage"})
            /\ Cardinality({j \in 1..Len(flags) :
                              flags[j].question_id = call.arg[k].question_id}) >= 2
       /\ call.result.consistency_score <= Max(0, 100 - 10 * Cardinality(discrepant))

\* An evaluation of 80 percent rated poor, two levels below the expected
\* tier good, has been audited: both checks have flagged it.
C30_Witness ==
  /\ call.fn = "perform_qa_check"
  /\ call.done
  /\ Len(call.arg) = 1
  /\ call.arg[1].max_marks > 0
  /\ call.arg[1].marks_awarded * 100 = 80 * call.arg[1].max_marks
  /\ call.arg[1].overall_quality = "poor"
  /\ \E j \in 1..Len(call.result.flags) :
       call.result.flags[j].reason = "High score but poor quality rating"
  /\ \E j \in 1..Len(call.result.flags) :
       call.result.flags[j].reason = "Quality rating doesn't match score percentage"

\* C27: a call of _call_claude makes at most two attempts at the backend;
\* it makes a second attempt exactly when the first one raised a
\* malformed-function-call ValueError; it ends with the outcome of its last
\* attempt, a response or that attempt's error, which is all its caller
\* sees; and every call comes to an end.
C27_RetryOnce ==
  /\ [](call.fn = "call_claude" =>
          /\ Len(call.attempts) <= 2
          /\ Len(call.attempts) = 2 => call.attempts[1] = "malformed"
          /\ call.done =>
               /\ Len(call.attempts) >= 1
               /\ call.attempts[1] = "malformed" => Len(call.attempts) = 2
               /\ call.result.ok <=> call.attempts[Len(call.attempts)] = "response"
               /\ ~call.result.ok => call.result.value = call.attempts[Len(call.attempts)]
          /\ ~call.done => \A k \in 1..Len(call.attempts) : call.attempts[k] = "malformed")
  /\ (call.fn = "call_claude" ~> call.done)

\* A call whose first attempt was malformed and whose retry was malformed
\* again: it ended after two attempts with that error.
C27_Witness ==
  /\ call.fn = "call_claude"
  /\ call.done
  /\ call.attempts = <<"malformed", "malformed">>
  /\ ~call.result.ok

\* ================================================================ keys
\* Marking requests that differ in every component of the cache key: a
\* second student id and a second answer file besides those of Init.
OtherStudents == {MaxStudents + 1}
OtherAnswerFiles == {MaxAnswerFiles + 1}

InitKeys ==
  /\ marking_guides = EmptyMap
  /\ reports = EmptyMap
  /\ metadata = EmptyMetadata
  /\ metadata_file = [valid |-> TRUE, data |-> EmptyMetadata]
  /\ guide_blobs = EmptyMap
  /\ report_blobs = EmptyMap
  /\ run = [p \in Procs |-> IdleRun]
  /\ next_guide = 0
  /\ next_report = 0
  /\ restarts = 0
  /\ faults = MaxFaults
  /\ answer_sheets \in [AnswerFiles \cup OtherAnswerFiles -> SUBSET Questions]
  /\ issued = {}
  /\ pipeline = NoPipeline
  /\ call = NoCall

NextKeys ==
  \/ Next
  \/ \E p \in Procs, g \in GuideIds, s \in Students \cup OtherStudents,
        a \in AnswerFiles \cup OtherAnswerFiles :
       /\ s \in OtherStudents \/ a \in OtherAnswerFiles
       /\ MarkStart(p, g, s, a)

SpecKeys == InitKeys /\ [][NextKeys]_vars

\* C28: a cache hit of mark_answer_sheet returns the report that a
\* completed run produced for the same guide id, the same student id and
\* the same answer-file hash, and never a report that a marking run made
\* for another guide, another student or other answer bytes.
C28_CacheHitIsForSameRequest ==
  [][\A p \in Procs :
       ( /\ run[p].pc = "idle"
         /\ run'[p].kind = "mark"
         /\ run'[p].pc = "done"
         /\ run'[p].result.cached )
       => /\ \E e \in issued :
               /\ e.id = run'[p].result.id
               /\ e.key = <<run'[p].guide_id, run'[p].student,
                            compute_file_hash("answer", run'[p].file)>>
               /\ e.obj = reports[e.id]
               /\ e.obj.student_id = run'[p].student
          /\ \A e \in issued :
               (e.id = run'[p].result.id /\ e.key[1] \in GuideIds)
               => e.key = <<run'[p].guide_id, run'[p].student,
                            compute_file_hash("answer", run'[p].file)>>]_vars

\* A request served from the cache while the cache also holds a report
\* made for the same guide and the same file but for another student.
C28_Witness ==
  \E p \in Procs :
    /\ run[p].kind = "mark"
    /\ run[p].pc = "done"
    /\ run[p].result.cached
    /\ \E e \in issued :
         /\ e.key[1] = run[p].guide_id
         /\ e.key[3] = compute_file_hash("answer", run[p].file)
         /\ e.key[2] \notin {0, run[p].student}
         /\ e.id # run[p].result.id
         /\ e.id \in DOMAIN reports

\* C29: in every report the orchestrator assembles from the result of the
\* QA agent, requires_review implies a review_priority of medium or high,
\* and review_priority is low only when the audit has no flag and its
\* confidence tier is high.
C29_ReviewImpliesPriority ==
  pipeline.stage = "done" =>
    /\ pipeline.report.qa_result = perform_qa_check(pipeline.evaluations)
    /\ pipeline.report.requires_review
         => pipeline.report.review_priority \in {"medium", "high"}
    /\ pipeline.report.review_priority = "low"
         => /\ Len(pipeline.report.qa_result.flags) = 0
            /\ pipeline.report.qa_result.confidence_level = "high"

\* A report that requires review at priority medium, from an audit of tier
\* medium that carries a flag.
C29_Witness ==
  /\ pipeline.stage = "done"
  /\ pipeline.report.requires_review
  /\ pipeline.report.review_priority = "medium"
  /\ pipeline.report.qa_result.confidence_level = "medium"
  /\ Len(pipeline.report.qa_result.flags) > 0

====
